---- MODULE Spec2Model ----
(***************************************************************************)
(* The gamepad registry of src/framework/gamepad.rs: GamepadContext owns a *)
(* Vec<GamepadData>; the backend adds and removes gamepads and delivers    *)
(* button and axis events by the controller's instance id, update_axes     *)
(* turns the raw axis samples into the dead-zone filtered fields, and the  *)
(* game queries buttons and axes by position in the Vec.                   *)
(*                                                                         *)
(* f64 values are modelled as integers in hundredths (0.12 is 12, 0.25 is  *)
(* 25), which keeps every comparison the code makes (<, >, abs) exact for  *)
(* the samples drawn here. NaN samples are not drawn.                      *)
(***************************************************************************)
EXTENDS Integers, Sequences, FiniteSets

VARIABLES
    gamepads,   \* GamepadContext::gamepads, a sequence of GamepadData records
    last,       \* the call made by the last step: [op, id]
    events,     \* number of calls made so far
    delivered,  \* history: per id, the last sample the backend sent per axis
    pending     \* history: ids sampled since their last update_axes

vars == <<gamepads, last, events, delivered, pending>>

----------------------------------------------------------------------------
(* Bounds of the model *)

\* Number of calls in one run.
MaxEvents == 4

\* Number of calls in one run of the axis pipeline.
MaxAxisEvents == 3

\* Number of calls in one run of the query checks.
MaxQueryEvents == 3

\* Largest position asked of the queries (positions start at 0).
MaxIndex == 5

\* Instance ids the backend hands out.
GamepadIds == {1, 2}

\* Sensitivities a gamepad is added with (0.10 and 0.25).
Sensitivities == {10, 25}

\* Raw axis samples the backend delivers in a run, in hundredths.
Samples == {-25, -11, 25}

\* Raw axis samples of the runs of the axis pipeline: of both signs, inside
\* the dead zone (0.12), on its edge and beyond it, and on and around the
\* sensitivities.
FilterSamples == {-30, -25, -12, -11, 5, 12, 25, 50}

----------------------------------------------------------------------------
(* Types of gamepad.rs *)

Axis == {"LeftX", "LeftY", "RightX", "RightY", "TriggerLeft", "TriggerRight"}

\* The axes the backend samples in a run: one of each stick and a trigger.
EventAxes == {"LeftX", "RightY", "TriggerLeft"}

AxisDirection == {"None", "Either", "Up", "Left", "Right", "Down"}

\* The buttons of the enum that the events of the model use.
Button == {"South", "DPadUp"}

\* PlayerControllerInputType, as is_active matches on it.
PlayerControllerInputType ==
    [kind : {"ButtonInput"}, button : Button]
        \cup [kind : {"AxisInput"}, axis : Axis]
        \cup [kind : {"Either"}, button : Button, axis : Axis]

\* f64::abs
Abs(x) == IF x < 0 THEN -x ELSE x

\* The dead zone of update_axes: 0.12.
DEAD_ZONE == 12

\* The threshold is_axis_active passes for the two triggers: 0.0.
TRIGGER_SENSITIVITY == 0

----------------------------------------------------------------------------
(* AxisDirection::compare *)

\* compare with the positive bound included (>= for >).
compare_inclusive(direction, value, axis_sensitivity) ==
    CASE direction = "None" -> FALSE
      [] direction = "Either" -> Abs(value) > 0
      [] direction \in {"Down", "Right"} -> value >= axis_sensitivity
      [] direction \in {"Up", "Left"} -> value < -axis_sensitivity

\* compare with Either measured against the sensitivity.
compare_either_sensitive(direction, value, axis_sensitivity) ==
    CASE direction = "None" -> FALSE
      [] direction = "Either" -> Abs(value) > axis_sensitivity
      [] direction \in {"Down", "Right"} -> value > axis_sensitivity
      [] direction \in {"Up", "Left"} -> value < -axis_sensitivity

compare(direction, value, axis_sensitivity) ==
    CASE direction = "None" -> FALSE
      [] direction = "Either" -> Abs(value) > 0
      [] direction \in {"Down", "Right"} -> value > axis_sensitivity
      [] direction \in {"Up", "Left"} -> value < -axis_sensitivity

----------------------------------------------------------------------------
(* GamepadData *)

\* HashMap::with_capacity(8): no axis has a sample.
EmptyAxisValues == [a \in {} |-> 0]

\* GamepadData::new
GamepadData_new(game_controller, axis_sensitivity) ==
    [controller |-> game_controller,
     left_x |-> 0, left_y |-> 0, right_x |-> 0, right_y |-> 0,
     trigger_left |-> 0, trigger_right |-> 0,
     axis_sensitivity |-> axis_sensitivity,
     pressed_buttons_set |-> {},
     axis_values |-> EmptyAxisValues]

\* controller.instance_id()
instance_id(gamepad) == gamepad.controller

\* The filtered field that update_axes and is_axis_active pair with an axis.
AxisField(gamepad, axis) ==
    CASE axis = "LeftX" -> gamepad.left_x
      [] axis = "LeftY" -> gamepad.left_y
      [] axis = "RightX" -> gamepad.right_x
      [] axis = "RightY" -> gamepad.right_y
      [] axis = "TriggerLeft" -> gamepad.trigger_left
      [] axis = "TriggerRight" -> gamepad.trigger_right

----------------------------------------------------------------------------
(* GamepadContext *)

\* GamepadContext::new
GamepadContext_new == << >>

\* get_gamepad_mut falling back on the first gamepad for an id it does not
\* find.
get_gamepad_mut_or_first(g, gamepad_id) ==
    LET found == {i \in 1..Len(g) : instance_id(g[i]) = gamepad_id}
    IN  IF found = {} THEN (IF Len(g) > 0 THEN 1 ELSE 0)
        ELSE CHOOSE i \in found : \A j \in found : i <= j

\* Position (from 1) of the first gamepad with this instance id, 0 for None:
\* iter().find(..) of get_gamepad and get_gamepad_mut.
get_gamepad_mut(g, gamepad_id) ==
    LET found == {i \in 1..Len(g) : instance_id(g[i]) = gamepad_id}
    IN  IF found = {} THEN 0
        ELSE CHOOSE i \in found : \A j \in found : i <= j

\* Vec::get with the position clamped to the last gamepad.
get_gamepad_by_index_clamped(g, gamepad_index) ==
    IF Len(g) = 0 THEN << >>
    ELSE IF gamepad_index >= 0 /\ gamepad_index < Len(g)
         THEN <<g[gamepad_index + 1]>>
         ELSE <<g[Len(g)]>>

\* Vec::get: the gamepad at a position counted from 0, as a sequence of
\* length 1, or the empty sequence for None.
get_gamepad_by_index(g, gamepad_index) ==
    IF gamepad_index >= 0 /\ gamepad_index < Len(g)
    THEN <<g[gamepad_index + 1]>>
    ELSE << >>

\* Vec::insert(0, ..) for Vec::push.
add_gamepad_front(g, game_controller, axis_sensitivity) ==
    <<GamepadData_new(game_controller, axis_sensitivity)>> \o g

\* A push that puts the gamepad back where its id was last time: before
\* the first gamepad of a higher id.
add_gamepad_by_id(g, game_controller, axis_sensitivity) ==
    LET lower == SelectSeq(g, LAMBDA data : instance_id(data) <= game_controller)
        higher == SelectSeq(g, LAMBDA data : instance_id(data) > game_controller)
    IN  lower \o <<GamepadData_new(game_controller, axis_sensitivity)>> \o higher

\* Vec::push(GamepadData::new(..))
add_gamepad(g, game_controller, axis_sensitivity) ==
    Append(g, GamepadData_new(game_controller, axis_sensitivity))

\* Vec::retain(|data| data.controller.instance_id() != gamepad_id)
remove_gamepad(g, gamepad_id) ==
    SelectSeq(g, LAMBDA data : instance_id(data) /= gamepad_id)

\* set_button that toggles: a press of a held button releases it.
set_button_toggle(g, gamepad_id, button, pressed) ==
    LET i == get_gamepad_mut(g, gamepad_id)
    IN  IF i = 0 THEN g
        ELSE IF pressed /\ button \notin g[i].pressed_buttons_set
             THEN [g EXCEPT ![i].pressed_buttons_set = @ \cup {button}]
             ELSE [g EXCEPT ![i].pressed_buttons_set = @ \ {button}]

\* set_button that empties the set on a release (clear for remove).
set_button_clear(g, gamepad_id, button, pressed) ==
    LET i == get_gamepad_mut(g, gamepad_id)
    IN  IF i = 0 THEN g
        ELSE IF pressed
             THEN [g EXCEPT ![i].pressed_buttons_set = @ \cup {button}]
             ELSE [g EXCEPT ![i].pressed_buttons_set = {}]

set_button(g, gamepad_id, button, pressed) ==
    LET i == get_gamepad_mut(g, gamepad_id)
    IN  IF i = 0 THEN g
        ELSE IF pressed
             THEN [g EXCEPT ![i].pressed_buttons_set = @ \cup {button}]
             ELSE [g EXCEPT ![i].pressed_buttons_set = @ \ {button}]

\* HashMap::insert
\* An insert that keeps the value a key already has.
HashMap_insert_absent(m, k, v) ==
    [x \in DOMAIN m \cup {k} |-> IF x \in DOMAIN m THEN m[x] ELSE v]

HashMap_insert(m, k, v) ==
    [a \in DOMAIN m \cup {k} |-> IF a = k THEN v ELSE m[a]]

\* set_axis_value that also stores the sample of the left stick's X axis in
\* left_x.
set_axis_value_direct(g, gamepad_id, axis, value) ==
    LET i == get_gamepad_mut(g, gamepad_id)
    IN  IF i = 0 THEN g
        ELSE [g EXCEPT ![i].axis_values = HashMap_insert(@, axis, value),
                       ![i].left_x = IF axis = "LeftX" THEN value ELSE @]

set_axis_value(g, gamepad_id, axis, value) ==
    LET i == get_gamepad_mut(g, gamepad_id)
    IN  IF i = 0 THEN g
        ELSE [g EXCEPT ![i].axis_values = HashMap_insert(@, axis, value)]

\* No dead zone: the raw sample as it is.
Filtered_raw(raw) == raw

\* The dead zone with its edge inside (<= for <).
Filtered_edge_inside(raw) == IF Abs(raw) <= DEAD_ZONE THEN 0 ELSE raw

\* The value update_axes stores for a raw sample.
Filtered(raw) == IF Abs(raw) < DEAD_ZONE THEN 0 ELSE raw

\* The pass without the dead zone: the raw sample is stored.
UpdateField_unfiltered(gamepad, axis, field) ==
    IF axis \in DOMAIN gamepad.axis_values
    THEN gamepad.axis_values[axis]
    ELSE field

\* One pass of the loop of update_axes over the six (field, axis) pairs.
UpdateField(gamepad, axis, field) ==
    IF axis \in DOMAIN gamepad.axis_values
    THEN Filtered(gamepad.axis_values[axis])
    ELSE field

\* update_axes that runs the loop on every gamepad of the context.
update_axes_every(g, gamepad_id) ==
    IF get_gamepad_mut(g, gamepad_id) = 0 THEN g
    ELSE [i \in 1..Len(g) |->
            [g[i] EXCEPT
                !.left_x = UpdateField(g[i], "LeftX", @),
                !.left_y = UpdateField(g[i], "LeftY", @),
                !.right_x = UpdateField(g[i], "RightX", @),
                !.right_y = UpdateField(g[i], "RightY", @),
                !.trigger_left = UpdateField(g[i], "TriggerLeft", @),
                !.trigger_right = UpdateField(g[i], "TriggerRight", @)]]

\* update_axes that empties axis_values once the samples are filtered.
update_axes_drain(g, gamepad_id) ==
    LET i == get_gamepad_mut(g, gamepad_id)
    IN  IF i = 0 THEN g
        ELSE [g EXCEPT ![i] =
                [@ EXCEPT
                    !.left_x = UpdateField(g[i], "LeftX", @),
                    !.left_y = UpdateField(g[i], "LeftY", @),
                    !.right_x = UpdateField(g[i], "RightX", @),
                    !.right_y = UpdateField(g[i], "RightY", @),
                    !.trigger_left = UpdateField(g[i], "TriggerLeft", @),
                    !.trigger_right = UpdateField(g[i], "TriggerRight", @),
                    !.axis_values = EmptyAxisValues]]

update_axes(g, gamepad_id) ==
    LET i == get_gamepad_mut(g, gamepad_id)
    IN  IF i = 0 THEN g
        ELSE [g EXCEPT ![i] =
                [@ EXCEPT
                    !.left_x = UpdateField(g[i], "LeftX", @),
                    !.left_y = UpdateField(g[i], "LeftY", @),
                    !.right_x = UpdateField(g[i], "RightX", @),
                    !.right_y = UpdateField(g[i], "RightY", @),
                    !.trigger_left = UpdateField(g[i], "TriggerLeft", @),
                    !.trigger_right = UpdateField(g[i], "TriggerRight", @)]]

is_button_active(g, gamepad_index, button) ==
    LET found == get_gamepad_by_index(g, gamepad_index)
    IN  IF found /= << >>
        THEN button \in found[1].pressed_buttons_set
        ELSE FALSE

\* The sensitivity of the gamepad for the triggers too.
AxisThreshold_uniform(gamepad, axis) == gamepad.axis_sensitivity

\* The threshold is_axis_active hands to compare for an axis.
AxisThreshold(gamepad, axis) ==
    IF axis \in {"TriggerLeft", "TriggerRight"}
    THEN TRIGGER_SENSITIVITY
    ELSE gamepad.axis_sensitivity

is_axis_active(g, gamepad_index, axis, direction) ==
    LET found == get_gamepad_by_index(g, gamepad_index)
    IN  IF found /= << >>
        THEN compare(direction, AxisField(found[1], axis),
                     AxisThreshold(found[1], axis))
        ELSE FALSE

\* is_active with && for || in the Either arm.
is_active_both(g, gamepad_index, input_type, axis_direction) ==
    CASE input_type.kind = "ButtonInput" ->
            is_button_active(g, gamepad_index, input_type.button)
      [] input_type.kind = "AxisInput" ->
            is_axis_active(g, gamepad_index, input_type.axis, axis_direction)
      [] input_type.kind = "Either" ->
            is_button_active(g, gamepad_index, input_type.button)
                /\ is_axis_active(g, gamepad_index, input_type.axis, axis_direction)

is_active(g, gamepad_index, input_type, axis_direction) ==
    CASE input_type.kind = "ButtonInput" ->
            is_button_active(g, gamepad_index, input_type.button)
      [] input_type.kind = "AxisInput" ->
            is_axis_active(g, gamepad_index, input_type.axis, axis_direction)
      [] input_type.kind = "Either" ->
            is_button_active(g, gamepad_index, input_type.button)
                \/ is_axis_active(g, gamepad_index, input_type.axis, axis_direction)

----------------------------------------------------------------------------
(* The calls the backend makes on the context *)

Call(op, id) == [op |-> op, id |-> id]

\* Some gamepad of g has this instance id.
Registered(g, id) == \E i \in 1..Len(g) : g[i].controller = id

\* No sample sent yet.
NoSamples == [a \in {} |-> 0]

Init ==
    /\ gamepads = GamepadContext_new
    /\ last = Call("new", 0)
    /\ events = 0
    /\ delivered = [id \in GamepadIds |-> NoSamples]
    /\ pending = {}

\* Each action is one call on the context, at most the max-th of the run.
AddGamepad(id, s, max) ==
    /\ events < max
    /\ gamepads' = add_gamepad(gamepads, id, s)
    /\ last' = Call("add_gamepad", id)
    /\ events' = events + 1
    /\ UNCHANGED <<delivered, pending>>

RemoveGamepad(id, max) ==
    /\ events < max
    /\ gamepads' = remove_gamepad(gamepads, id)
    /\ last' = Call("remove_gamepad", id)
    /\ events' = events + 1
    /\ delivered' = [delivered EXCEPT ![id] = NoSamples]
    /\ pending' = pending \ {id}

SetButton(id, button, pressed, max) ==
    /\ events < max
    /\ gamepads' = set_button(gamepads, id, button, pressed)
    /\ last' = Call("set_button", id)
    /\ events' = events + 1
    /\ UNCHANGED <<delivered, pending>>

SetAxisValue(id, axis, value, max) ==
    /\ events < max
    /\ gamepads' = set_axis_value(gamepads, id, axis, value)
    /\ last' = Call("set_axis_value", id)
    /\ events' = events + 1
    /\ IF Registered(gamepads, id)
          THEN /\ delivered' = [delivered EXCEPT ![id] =
                                   [a \in DOMAIN @ \cup {axis} |->
                                       IF a = axis THEN value ELSE @[a]]]
               /\ pending' = pending \cup {id}
          ELSE UNCHANGED <<delivered, pending>>

UpdateAxes(id, max) ==
    /\ events < max
    /\ gamepads' = update_axes(gamepads, id)
    /\ last' = Call("update_axes", id)
    /\ events' = events + 1
    /\ pending' = pending \ {id}
    /\ UNCHANGED delivered

\* The backend's calls in any order: gamepads come and go, buttons and the
\* sampled axes change, update_axes runs.
Next ==
    \/ \E id \in GamepadIds, s \in Sensitivities : AddGamepad(id, s, MaxEvents)
    \/ \E id \in GamepadIds : RemoveGamepad(id, MaxEvents)
    \/ \E id \in GamepadIds, b \in Button, p \in BOOLEAN :
          SetButton(id, b, p, MaxEvents)
    \/ \E id \in GamepadIds, a \in EventAxes, v \in Samples :
          SetAxisValue(id, a, v, MaxEvents)
    \/ \E id \in GamepadIds : UpdateAxes(id, MaxEvents)

Spec == Init /\ [][Next]_vars

\* The axis pipeline alone, on every axis and with the samples around the
\* dead zone and the sensitivities: a gamepad is added, samples arrive,
\* update_axes runs.
AxisNext ==
    \/ \E id \in GamepadIds, s \in Sensitivities :
          AddGamepad(id, s, MaxAxisEvents)
    \/ \E id \in GamepadIds, a \in Axis, v \in FilterSamples :
          SetAxisValue(id, a, v, MaxAxisEvents)
    \/ \E id \in GamepadIds : UpdateAxes(id, MaxAxisEvents)

AxisSpec == Init /\ [][AxisNext]_vars

\* The calls of Next in shorter runs, for the queries that are asked of
\* every input type and direction in every state.
QueryNext ==
    \/ \E id \in GamepadIds, s \in Sensitivities :
          AddGamepad(id, s, MaxQueryEvents)
    \/ \E id \in GamepadIds : RemoveGamepad(id, MaxQueryEvents)
    \/ \E id \in GamepadIds, b \in Button, p \in BOOLEAN :
          SetButton(id, b, p, MaxQueryEvents)
    \/ \E id \in GamepadIds, a \in EventAxes, v \in Samples :
          SetAxisValue(id, a, v, MaxQueryEvents)
    \/ \E id \in GamepadIds : UpdateAxes(id, MaxQueryEvents)

QuerySpec == Init /\ [][QueryNext]_vars

----------------------------------------------------------------------------
(* Vocabulary of the properties *)

QueryIndices == 0..MaxIndex

\* The position (from 1) of the gamepad the events for id reach.
SlotOf(g, id) ==
    CHOOSE i \in 1..Len(g) :
        /\ g[i].controller = id
        /\ \A j \in 1..(i - 1) : g[j].controller /= id

\* The six filtered values of every gamepad, by position.
FilteredState(g) ==
    [i \in 1..Len(g) |->
        <<g[i].left_x, g[i].left_y, g[i].right_x, g[i].right_y,
          g[i].trigger_left, g[i].trigger_right>>]

\* The answers of is_axis_active on the positions of g and the one after.
AxisQueries(g) ==
    [i \in 0..Len(g), a \in Axis, d \in AxisDirection |->
        is_axis_active(g, i, a, d)]

\* is_button_active for b at the position the gamepad of id has in g.
ButtonOf(g, id, b) == is_button_active(g, SlotOf(g, id) - 1, b)

StickAxes == {"LeftX", "LeftY", "RightX", "RightY"}

\* What the dead-zone filter is to give for a raw sample v (0.12 is 12).
DeadZoned(v) == IF -12 < v /\ v < 12 THEN 0 ELSE v

\* The direction queries of a stick axis against the sensitivity s of its
\* gamepad.
StickDirections(g, index, a) ==
    LET s == g[index + 1].axis_sensitivity
        v == AxisField(g[index + 1], a)
    IN  /\ is_axis_active(g, index, a, "Up") <=> (v < -s)
        /\ is_axis_active(g, index, a, "Left") <=> (v < -s)
        /\ is_axis_active(g, index, a, "Down") <=> (v > s)
        /\ is_axis_active(g, index, a, "Right") <=> (v > s)
        /\ (-s <= v /\ v <= s) =>
              \A d \in {"Up", "Left", "Down", "Right"} :
                  ~is_axis_active(g, index, a, d)

\* g and h cannot be told apart: same count, same id at every position,
\* same answer to every query.
SameObservable(g, h) ==
    /\ Len(g) = Len(h)
    /\ \A i \in 1..Len(g) : g[i].controller = h[i].controller
    /\ \A index \in QueryIndices :
          /\ \A b \in Button :
                is_button_active(g, index, b) = is_button_active(h, index, b)
          /\ \A a \in Axis, d \in AxisDirection :
                is_axis_active(g, index, a, d) = is_axis_active(h, index, a, d)

----------------------------------------------------------------------------
(* C1: set_axis_value and set_button leave the six filtered axis values of *)
(* every gamepad as they were, and with them the answer of every           *)
(* is_axis_active query; only update_axes writes them.                     *)

C1_RawEventsKeepFiltered ==
    [][last'.op \in {"set_axis_value", "set_button"} =>
          /\ FilteredState(gamepads') = FilteredState(gamepads)
          /\ AxisQueries(gamepads') = AxisQueries(gamepads)]_vars

\* A sample beyond the dead zone has arrived and the filtered value is not
\* yet it.
C1_Witness ==
    /\ last.op = "set_axis_value"
    /\ Registered(gamepads, last.id)
    /\ \E a \in Axis :
          LET gp == gamepads[SlotOf(gamepads, last.id)]
          IN  /\ a \in DOMAIN gp.axis_values
              /\ gp.axis_values[a] = 25
              /\ AxisField(gp, a) = 0

----------------------------------------------------------------------------
(* C2: after update_axes on a known id, every axis of that gamepad that    *)
(* has a raw sample v holds 0 when |v| < 0.12 and v itself when            *)
(* |v| >= 0.12, the edge |v| = 0.12 included, for either sign of v.        *)

C2_DeadZoneFilter ==
    (last.op = "update_axes" /\ Registered(gamepads, last.id)) =>
        LET gp == gamepads[SlotOf(gamepads, last.id)]
        IN  \A a \in DOMAIN gp.axis_values :
                AxisField(gp, a) = DeadZoned(gp.axis_values[a])

\* update_axes has passed a sample on the edge of the dead zone through.
C2_Witness ==
    /\ last.op = "update_axes"
    /\ Registered(gamepads, last.id)
    /\ LET gp == gamepads[SlotOf(gamepads, last.id)]
       IN  \E a \in DOMAIN gp.axis_values :
              gp.axis_values[a] = -12 /\ AxisField(gp, a) = -12

----------------------------------------------------------------------------
(* C3: for a stick axis of the gamepad at a valid position, with           *)
(* sensitivity s and filtered value v: Up and Left are true iff v < -s,    *)
(* Down and Right are true iff v > s, and a value within [-s, s], the two  *)
(* ends included, is inactive both ways.                                   *)

C3_StickThreshold ==
    \A index \in 0..(Len(gamepads) - 1), a \in StickAxes :
        StickDirections(gamepads, index, a)

\* A stick rests exactly on the sensitivity.
C3_Witness ==
    \E i \in 1..Len(gamepads) :
        /\ gamepads[i].axis_sensitivity = 25
        /\ gamepads[i].right_y = -25
        /\ ~is_axis_active(gamepads, i - 1, "RightY", "Up")

----------------------------------------------------------------------------
(* C4: is_axis_active with Either is true iff the filtered value of the    *)
(* axis is not zero, whatever the sensitivity; so after a sample v and     *)
(* update_axes it is true iff |v| >= 0.12.                                 *)

C4_EitherIsNonZero ==
    /\ \A index \in 0..(Len(gamepads) - 1), a \in Axis :
          is_axis_active(gamepads, index, a, "Either")
              <=> (AxisField(gamepads[index + 1], a) /= 0)
    /\ (last.op = "update_axes" /\ Registered(gamepads, last.id)) =>
          LET i == SlotOf(gamepads, last.id)
          IN  \A a \in DOMAIN gamepads[i].axis_values :
                  LET v == gamepads[i].axis_values[a]
                  IN  is_axis_active(gamepads, i - 1, a, "Either")
                          <=> (v <= -12 \/ v >= 12)

\* A stick value within the sensitivity is active for Either and for no
\* direction.
C4_Witness ==
    /\ last.op = "update_axes"
    /\ \E i \in 1..Len(gamepads) :
          /\ gamepads[i].axis_sensitivity = 25
          /\ gamepads[i].left_x = 25
          /\ is_axis_active(gamepads, i - 1, "LeftX", "Either")
          /\ ~is_axis_active(gamepads, i - 1, "LeftX", "Right")

----------------------------------------------------------------------------
(* C5: is_button_active, is_axis_active and is_active asked for a position *)
(* at or beyond the number of gamepads answer false, for every button,     *)
(* axis, input type and direction, and are defined there.                  *)

C5_OutOfRangeIsFalse ==
    \A index \in QueryIndices :
        index >= Len(gamepads) =>
            /\ \A b \in Button : is_button_active(gamepads, index, b) = FALSE
            /\ \A a \in Axis, d \in AxisDirection :
                  is_axis_active(gamepads, index, a, d) = FALSE
            /\ \A t \in PlayerControllerInputType, d \in AxisDirection :
                  is_active(gamepads, index, t, d) = FALSE

\* A removal has left one gamepad, with a button held: position 1 is stale.
C5_Witness ==
    /\ last.op = "remove_gamepad"
    /\ Len(gamepads) = 1
    /\ gamepads[1].pressed_buttons_set /= {}

----------------------------------------------------------------------------
(* C6: remove_gamepad, set_button, set_axis_value and update_axes called   *)
(* with an id that no gamepad has leave the whole context unchanged.       *)

C6_UnknownIdIsNoOp ==
    [][(/\ last'.op \in {"remove_gamepad", "set_button", "set_axis_value",
                         "update_axes"}
        /\ ~Registered(gamepads, last'.id))
          => gamepads' = gamepads]_vars

\* An axis event for an id that is not there, beside a gamepad with state.
C6_Witness ==
    /\ last.op = "set_axis_value"
    /\ ~Registered(gamepads, last.id)
    /\ \E i \in 1..Len(gamepads) : gamepads[i].pressed_buttons_set /= {}

----------------------------------------------------------------------------
(* C7: add_gamepad appends: the new gamepad is the last one, with no       *)
(* button pressed, no raw sample and the six filtered values 0, so every   *)
(* query on it is false; every gamepad that was there keeps its position   *)
(* and its state.                                                          *)

C7_RegisterAppends ==
    [][last'.op = "add_gamepad" =>
          /\ Len(gamepads') = Len(gamepads) + 1
          /\ \A i \in 1..Len(gamepads) : gamepads'[i] = gamepads[i]
          /\ LET new == gamepads'[Len(gamepads')]
                 index == Len(gamepads') - 1
             IN  /\ new.controller = last'.id
                 /\ new.pressed_buttons_set = {}
                 /\ DOMAIN new.axis_values = {}
                 /\ \A a \in Axis : AxisField(new, a) = 0
                 /\ \A b \in Button : ~is_button_active(gamepads', index, b)
                 /\ \A a \in Axis, d \in AxisDirection :
                       ~is_axis_active(gamepads', index, a, d)
                 /\ \A t \in PlayerControllerInputType, d \in AxisDirection :
                       ~is_active(gamepads', index, t, d)]_vars

\* A gamepad was added behind one that has a button held.
C7_Witness ==
    /\ last.op = "add_gamepad"
    /\ Len(gamepads) >= 2
    /\ gamepads[1].pressed_buttons_set /= {}
    /\ gamepads[Len(gamepads)].controller = last.id

----------------------------------------------------------------------------
(* C8: remove_gamepad of an id that is there removes exactly one gamepad:  *)
(* the count goes down by one, the gamepads before it keep their position  *)
(* and those behind it move down by one, state and order kept.             *)

C8_UnregisterRemovesOne ==
    [][(last'.op = "remove_gamepad" /\ Registered(gamepads, last'.id)) =>
          LET k == SlotOf(gamepads, last'.id)
          IN  /\ Len(gamepads') = Len(gamepads) - 1
              /\ \A i \in 1..(k - 1) : gamepads'[i] = gamepads[i]
              /\ \A i \in (k + 1)..Len(gamepads) :
                    gamepads'[i - 1] = gamepads[i]]_vars

----------------------------------------------------------------------------
(* C9: add_gamepad with id d and then remove_gamepad(d) leave what can be  *)
(* observed as it was: the count, the id at every position and the answer  *)
(* of every query.                                                         *)

C9_RegisterUnregisterRoundTrip ==
    \A d \in GamepadIds, s \in Sensitivities :
        SameObservable(remove_gamepad(add_gamepad(gamepads, d, s), d), gamepads)

----------------------------------------------------------------------------
(* C10: no two gamepads of the context have the same instance id.          *)

C10_UniqueDeviceIds ==
    \A i, j \in 1..Len(gamepads) :
        i /= j => gamepads[i].controller /= gamepads[j].controller

----------------------------------------------------------------------------
(* C11: for an id that is there, set_button(id, b, true) makes             *)
(* is_button_active true for b at the position of that gamepad and         *)
(* set_button(id, b, false) makes it false; a call for another id, or      *)
(* set_button for another button of the same id, leaves that answer as it  *)
(* was.                                                                    *)

C11_ButtonPressRelease ==
    [][\A id \in GamepadIds, b \in Button :
          Registered(gamepads, id) =>
              /\ \A p \in BOOLEAN :
                    (/\ last' = Call("set_button", id)
                     /\ gamepads' = set_button(gamepads, id, b, p))
                        => ButtonOf(gamepads', id, b) = p
              /\ (\/ last'.id /= id
                  \/ /\ last' = Call("set_button", id)
                     /\ \E other \in Button \ {b}, p \in BOOLEAN :
                           gamepads' = set_button(gamepads, id, other, p))
                    => /\ Registered(gamepads', id)
                       /\ ButtonOf(gamepads', id, b) = ButtonOf(gamepads, id, b)]_vars

\* South was pressed and released again while DPadUp stayed held.
C11_Witness ==
    /\ last.op = "set_button"
    /\ events = 4
    /\ Len(gamepads) = 1
    /\ gamepads[1].controller = last.id
    /\ is_button_active(gamepads, 0, "DPadUp")
    /\ ~is_button_active(gamepads, 0, "South")

----------------------------------------------------------------------------
(* C12: set_button is idempotent: for an id that is there,                 *)
(* set_button(id, b, p) made twice leaves the context exactly as made      *)
(* once, for p true and p false; a press of a held button and a release of *)
(* a released one change nothing.                                          *)

C12_SetButtonIdempotent ==
    \A id \in GamepadIds, b \in Button :
        Registered(gamepads, id) =>
            /\ \A p \in BOOLEAN :
                  LET once == set_button(gamepads, id, b, p)
                  IN  set_button(once, id, b, p) = once
            /\ set_button(gamepads, id, b,
                          b \in gamepads[SlotOf(gamepads, id)].pressed_buttons_set)
                  = gamepads

\* A button is held after a set_button call: pressing it again is the case.
C12_Witness ==
    /\ last.op = "set_button"
    /\ Registered(gamepads, last.id)
    /\ gamepads[SlotOf(gamepads, last.id)].pressed_buttons_set = {"South"}

----------------------------------------------------------------------------
(* C13: is_active is is_button_active for a button input, is_axis_active   *)
(* with the direction for an axis input, and the one or the other for the  *)
(* combined input; the button part does not look at the direction, so a    *)
(* held button makes the combined input active with direction None too.    *)

C13_IsActiveDispatch ==
    \A index \in QueryIndices, d \in AxisDirection :
        /\ \A b \in Button :
              /\ is_active(gamepads, index, [kind |-> "ButtonInput", button |-> b], d)
                    = is_button_active(gamepads, index, b)
              /\ \A a \in Axis :
                    is_active(gamepads, index,
                              [kind |-> "Either", button |-> b, axis |-> a], d)
                        = (is_button_active(gamepads, index, b)
                              \/ is_axis_active(gamepads, index, a, d))
        /\ \A a \in Axis :
              is_active(gamepads, index, [kind |-> "AxisInput", axis |-> a], d)
                  = is_axis_active(gamepads, index, a, d)

\* A held button alone makes the combined input active with direction None.
C13_Witness ==
    \E i \in 1..Len(gamepads) :
        /\ "South" \in gamepads[i].pressed_buttons_set
        /\ gamepads[i].left_x = 0
        /\ ~is_axis_active(gamepads, i - 1, "LeftX", "None")
        /\ is_active(gamepads, i - 1,
                     [kind |-> "Either", button |-> "South", axis |-> "LeftX"],
                     "None")

----------------------------------------------------------------------------
(* C14: for the two triggers the direction is compared against 0 whatever  *)
(* the sensitivity of the gamepad: Down and Right are true iff the         *)
(* filtered trigger value is > 0, Up and Left iff it is < 0; the four      *)
(* stick axes are compared against the sensitivity of their gamepad.       *)

C14_TriggerThresholdZero ==
    \A index \in 0..(Len(gamepads) - 1) :
        LET gp == gamepads[index + 1]
        IN  /\ \A a \in {"TriggerLeft", "TriggerRight"} :
                  /\ \A d \in {"Down", "Right"} :
                        is_axis_active(gamepads, index, a, d)
                            <=> (AxisField(gp, a) > 0)
                  /\ \A d \in {"Up", "Left"} :
                        is_axis_active(gamepads, index, a, d)
                            <=> (AxisField(gp, a) < 0)
            /\ \A a \in StickAxes :
                  /\ \A d \in {"Down", "Right"} :
                        is_axis_active(gamepads, index, a, d)
                            <=> (AxisField(gp, a) > gp.axis_sensitivity)
                  /\ \A d \in {"Up", "Left"} :
                        is_axis_active(gamepads, index, a, d)
                            <=> (AxisField(gp, a) < -gp.axis_sensitivity)

\* A trigger below the sensitivity of its gamepad is active.
C14_Witness ==
    /\ last.op = "update_axes"
    /\ \E i \in 1..Len(gamepads) :
          /\ gamepads[i].axis_sensitivity = 25
          /\ gamepads[i].trigger_right = 12
          /\ is_axis_active(gamepads, i - 1, "TriggerRight", "Down")

----------------------------------------------------------------------------
(* C15: the stick pipeline end to end: with a gamepad of sensitivity s,    *)
(* after set_axis_value(id, LeftX, v) and update_axes(id) the query        *)
(* is_axis_active(position, LeftX, Right) is true iff |v| >= 0.12 and      *)
(* v > s, and Left is true iff |v| >= 0.12 and v < -s; the same on the     *)
(* other stick axes. With s = 0.25 and v = 0.5 Right is true, Left false.  *)

C15_StickPipeline ==
    (last.op = "update_axes" /\ Registered(gamepads, last.id)) =>
        LET i == SlotOf(gamepads, last.id)
            s == gamepads[i].axis_sensitivity
        IN  \A a \in StickAxes \cap DOMAIN gamepads[i].axis_values :
                LET v == gamepads[i].axis_values[a]
                IN  /\ is_axis_active(gamepads, i - 1, a, "Right")
                          <=> ((v <= -12 \/ v >= 12) /\ v > s)
                    /\ is_axis_active(gamepads, i - 1, a, "Left")
                          <=> ((v <= -12 \/ v >= 12) /\ v < -s)

\* One gamepad of sensitivity 0.25, LeftX sampled at 0.5, update_axes run.
C15_Witness ==
    /\ last.op = "update_axes"
    /\ Len(gamepads) = 1
    /\ gamepads[1].controller = last.id
    /\ gamepads[1].axis_sensitivity = 25
    /\ "LeftX" \in DOMAIN gamepads[1].axis_values
    /\ gamepads[1].axis_values["LeftX"] = 50
    /\ is_axis_active(gamepads, 0, "LeftX", "Right")
    /\ ~is_axis_active(gamepads, 0, "LeftX", "Left")

----------------------------------------------------------------------------
(* C16: when update_axes has run for a gamepad after the last sample sent  *)
(* to it (the frame order: events, then update_axes, then queries), every  *)
(* axis that was ever sampled holds, and every query on it answers from,   *)
(* the dead-zone filter of the last sample sent for that axis, whether it  *)
(* was sent in this frame or an earlier one: a later sample for an axis    *)
(* replaces the earlier one.                                               *)

C16_LastSampleSeen ==
    \A id \in GamepadIds :
        (Registered(gamepads, id) /\ id \notin pending) =>
            LET i  == SlotOf(gamepads, id)
                gp == gamepads[i]
            IN  \A a \in DOMAIN delivered[id] :
                    LET f == DeadZoned(delivered[id][a])
                        t == IF a \in StickAxes THEN gp.axis_sensitivity ELSE 0
                    IN  /\ AxisField(gp, a) = f
                        /\ is_axis_active(gamepads, i - 1, a, "Either") <=> (f /= 0)
                        /\ is_axis_active(gamepads, i - 1, a, "Right") <=> (f > t)
                        /\ is_axis_active(gamepads, i - 1, a, "Left") <=> (f < -t)

\* One gamepad, samples -0.11 on LeftX and 0.25 on RightY, update_axes run.
C16_Witness ==
    /\ last.op = "update_axes" /\ events = 4 /\ pending = {}
    /\ Len(gamepads) = 1 /\ gamepads[1].controller = last.id
    /\ DOMAIN delivered[last.id] = {"LeftX", "RightY"}
    /\ delivered[last.id]["LeftX"] = -11
    /\ delivered[last.id]["RightY"] = 25
    /\ ~is_axis_active(gamepads, 0, "LeftX", "Either")
    /\ is_axis_active(gamepads, 0, "RightY", "Either")

----------------------------------------------------------------------------
(* C17: update_axes(id) for an id that is there changes nothing but the    *)
(* filtered values of the sampled axes of the one gamepad the id reaches:  *)
(* an axis without a sample keeps its filtered value, which is zero, and   *)
(* the pressed buttons, the samples, the sensitivity, the id and every     *)
(* other gamepad stay as they were.                                        *)

C17_UpdateAxesFrame ==
    [][(last'.op = "update_axes" /\ Registered(gamepads, last'.id)) =>
          LET k == SlotOf(gamepads, last'.id)
          IN  /\ Len(gamepads') = Len(gamepads)
              /\ \A i \in 1..Len(gamepads) : i /= k => gamepads'[i] = gamepads[i]
              /\ gamepads'[k].controller = gamepads[k].controller
              /\ gamepads'[k].pressed_buttons_set = gamepads[k].pressed_buttons_set
              /\ gamepads'[k].axis_values = gamepads[k].axis_values
              /\ gamepads'[k].axis_sensitivity = gamepads[k].axis_sensitivity
              /\ \A a \in Axis \ DOMAIN gamepads[k].axis_values :
                    /\ AxisField(gamepads'[k], a) = AxisField(gamepads[k], a)
                    /\ AxisField(gamepads'[k], a) = 0]_vars

\* update_axes has run for the first of two gamepads while the second has
\* a sample that is not filtered yet.
C17_Witness ==
    /\ last.op = "update_axes" /\ Len(gamepads) = 2
    /\ gamepads[1].controller = last.id
    /\ gamepads[2].controller /= last.id
    /\ "LeftX" \in DOMAIN gamepads[2].axis_values
    /\ gamepads[2].axis_values["LeftX"] = 25
    /\ gamepads[2].left_x = 0
    /\ gamepads[1].right_y = 0

----------------------------------------------------------------------------
(* C18: in every state each of the six filtered values of every gamepad is *)
(* exactly 0 or has magnitude >= 0.12: none lies strictly between 0 and    *)
(* 0.12 in magnitude, whatever samples and update_axes calls came before.  *)

C18_NoValueInsideDeadZone ==
    \A i \in 1..Len(gamepads), a \in Axis :
        LET f == AxisField(gamepads[i], a)
        IN  f = 0 \/ f >= 12 \/ f <= -12

\* update_axes has filtered the sample 0.05, inside the dead zone, to 0.
C18_Witness ==
    /\ last.op = "update_axes"
    /\ \E i \in 1..Len(gamepads) :
          /\ gamepads[i].controller = last.id
          /\ DOMAIN gamepads[i].axis_values = {"LeftY"}
          /\ gamepads[i].axis_values["LeftY"] = 5
          /\ gamepads[i].left_y = 0

----------------------------------------------------------------------------
(* C19: update_axes is idempotent and the samples outlive it: for an id    *)
(* that is there and has had no sample since its last update_axes, another *)
(* update_axes(id) leaves the context as it is; and the samples of the     *)
(* gamepad an id reaches are, in every state, the last ones sent to it,    *)
(* so an axis keeps its last sampled value until a new sample arrives.     *)

C19_UpdateAxesIdempotent ==
    \A id \in GamepadIds :
        Registered(gamepads, id) =>
            /\ gamepads[SlotOf(gamepads, id)].axis_values = delivered[id]
            /\ id \notin pending => update_axes(gamepads, id) = gamepads

\* update_axes has run and no sample has come since: the samples 0.25 of
\* RightY and -0.25 of TriggerLeft are still there beside their filtered
\* values.
C19_Witness ==
    /\ last.op = "update_axes" /\ Registered(gamepads, last.id)
    /\ last.id \notin pending
    /\ LET gp == gamepads[SlotOf(gamepads, last.id)]
       IN  /\ DOMAIN gp.axis_values = {"RightY", "TriggerLeft"}
           /\ gp.axis_values["RightY"] = 25
           /\ gp.right_y = 25
           /\ gp.axis_values["TriggerLeft"] = -25
           /\ gp.trigger_left = -25

----------------------------------------------------------------------------
(* C20: nothing of a gamepad outlives remove_gamepad: the gamepad that     *)
(* add_gamepad makes is the last of the context and has no pressed button, *)
(* no sample and all six filtered values at zero; and remove_gamepad(id)   *)
(* followed by add_gamepad with the same id, whatever buttons and axis     *)
(* values the gamepad of id had, leaves the gamepads of the other ids in   *)
(* their order with that new gamepad after them, not at the former place.  *)

C20_NothingOutlivesRemoval ==
    /\ last.op = "add_gamepad" =>
          LET gp == gamepads[Len(gamepads)]
          IN  /\ gp.controller = last.id
              /\ gp.pressed_buttons_set = {}
              /\ DOMAIN gp.axis_values = {}
              /\ \A a \in Axis : AxisField(gp, a) = 0
              /\ \A b \in Button : ~is_button_active(gamepads, Len(gamepads) - 1, b)
    /\ \A id \in GamepadIds, s \in Sensitivities :
          Registered(gamepads, id) =>
              LET others == SelectSeq(gamepads, LAMBDA data : data.controller /= id)
                  again  == add_gamepad(remove_gamepad(gamepads, id), id, s)
                  gp     == again[Len(again)]
              IN  /\ Len(again) = Len(others) + 1
                  /\ \A i \in 1..Len(others) : again[i] = others[i]
                  /\ gp.controller = id
                  /\ gp.pressed_buttons_set = {}
                  /\ DOMAIN gp.axis_values = {}
                  /\ \A a \in Axis : AxisField(gp, a) = 0

\* The gamepad of id 1 came first, was removed and added again: it is now
\* after the gamepad of id 2.
C20_Witness ==
    /\ last = Call("add_gamepad", 1) /\ events = 4
    /\ Len(gamepads) = 2
    /\ gamepads[1].controller = 2
    /\ gamepads[2].controller = 1
    /\ gamepads[2].pressed_buttons_set = {}
    /\ gamepads[2].left_x = 0

====
